---------------------------- MODULE Spec2Model ----------------------------
(***************************************************************************)
(* Browser discovery, selection and persistence of Quick_Tabs             *)
(* (commands/detect.rs).  Text is modelled as sequences of one-character  *)
(* strings, so that trimming, parsing, JSON escaping and path handling    *)
(* are computed character by character as the code computes them.         *)
(***************************************************************************)
EXTENDS Integers, Sequences, FiniteSets, TLC

(***************************************************************************)
(* Option<T>: None is the empty sequence, Some(x) the one-element one.    *)
(***************************************************************************)
None == <<>>
Some(x) == <<x>>
IsSome(o) == o # <<>>
Unwrap(o) == o[1]

(***************************************************************************)
(* str helpers of the standard library, as used by detect.rs.  The scans  *)
(* over a text are written over its index set rather than by recursion on *)
(* its tail, which keeps evaluation shallow for long texts.               *)
(***************************************************************************)
IsWhitespace(c) == c \in {" ", "\n", "\t", "\r"}

MinOf(S) == CHOOSE i \in S : \A j \in S : i <= j
MaxOf(S) == CHOOSE i \in S : \A j \in S : j <= i

\* The rest of s after its first n characters.
Drop(s, n) == SubSeq(s, n + 1, Len(s))

\* Whether lit is a prefix of s.
StartsWith(s, lit) ==
  Len(s) >= Len(lit) /\ SubSeq(s, 1, Len(lit)) = lit

\* The positions of s that hold no whitespace.
Inked(s) == {i \in 1..Len(s) : ~IsWhitespace(s[i])}

\* str::trim_start
TrimStart(s) == IF Inked(s) = {} THEN <<>> ELSE Drop(s, MinOf(Inked(s)) - 1)

\* str::trim_end
TrimEnd(s) == IF Inked(s) = {} THEN <<>> ELSE SubSeq(s, 1, MaxOf(Inked(s)))

\* str::trim
Trim(s) == TrimEnd(TrimStart(s))

\* Index of the first occurrence of character c in s, or 0.
IndexOf(s, c) ==
  LET at == {i \in 1..Len(s) : s[i] = c}
  IN IF at = {} THEN 0 ELSE MinOf(at)

\* version_str.lines().next().unwrap_or(&version_str): the text before the
\* first line feed, without a carriage return that ends it; an empty string
\* has no line and is taken whole.
FirstLine(s) ==
  IF s = <<>> THEN s
  ELSE LET nl == IndexOf(s, "\n")
           line == IF nl = 0 THEN s ELSE SubSeq(s, 1, nl - 1)
       IN IF nl # 0 /\ line # <<>> /\ line[Len(line)] = "\r"
          THEN SubSeq(line, 1, Len(line) - 1)
          ELSE line

\* str::eq_ignore_ascii_case("m")
EqIgnoreAsciiCaseM(s) == s = <<"m">> \/ s = <<"M">>

Digits == {"0", "1", "2", "3", "4", "5", "6", "7", "8", "9"}

DigitValue(c) ==
  CASE c = "0" -> 0 [] c = "1" -> 1 [] c = "2" -> 2 [] c = "3" -> 3
    [] c = "4" -> 4 [] c = "5" -> 5 [] c = "6" -> 6 [] c = "7" -> 7
    [] c = "8" -> 8 [] c = "9" -> 9

RECURSIVE DigitsValue(_, _)
DigitsValue(s, acc) ==
  IF s = <<>> THEN acc
  ELSE DigitsValue(Tail(s), 10 * acc + DigitValue(Head(s)))

\* str::parse::<usize>: an optional '+', then one or more decimal digits;
\* anything else (empty, a sign alone, '-', a letter, inner blanks) is Err.
\* Lines here are far too short to overflow usize.
ParseUsize(s) ==
  LET body == IF s # <<>> /\ Head(s) = "+" THEN Tail(s) ELSE s
  IN IF body # <<>> /\ \A i \in 1..Len(body) : body[i] \in Digits
     THEN Some(DigitsValue(body, 0))
     ELSE None

(***************************************************************************)
(* serde_json: string literals.                                           *)
(***************************************************************************)
\* The escape of one character (the model's texts hold no other control
\* characters).
EscapeChar(c) ==
  CASE c = "\"" -> <<"\\", "\"">>
    [] c = "\\" -> <<"\\", "\\">>
    [] c = "\n" -> <<"\\", "n">>
    [] c = "\r" -> <<"\\", "r">>
    [] c = "\t" -> <<"\\", "t">>
    [] OTHER -> <<c>>

\* The escapes of s[lo..hi], concatenated (by halves).
RECURSIVE EscapeRange(_, _, _)
EscapeRange(s, lo, hi) ==
  IF lo > hi THEN <<>>
  ELSE IF lo = hi THEN EscapeChar(s[lo])
  ELSE EscapeRange(s, lo, (lo + hi) \div 2)
         \o EscapeRange(s, (lo + hi) \div 2 + 1, hi)

EscapeJson(s) == EscapeRange(s, 1, Len(s))

\* A JSON string literal for s.
JsonString(s) == <<"\"">> \o EscapeJson(s) \o <<"\"">>

\* The number of backslashes that stand directly before position i.
BackslashRun(s, i) ==
  LET stops == {j \in 1..(i - 1) : s[j] # "\\"}
  IN (i - 1) - (IF stops = {} THEN 0 ELSE MaxOf(stops))

\* Position i is the second character of an escape.
IsEscaped(s, i) == BackslashRun(s, i) % 2 = 1

\* The character an escape \d stands for; <<>> for an unknown escape.
Unescape(d) ==
  CASE d = "\"" -> <<"\"">>
    [] d = "\\" -> <<"\\">>
    [] d = "/" -> <<"/">>
    [] d = "n" -> <<"\n">>
    [] d = "r" -> <<"\r">>
    [] d = "t" -> <<"\t">>
    [] OTHER -> <<>>

\* Reads the body of a string literal (s is what follows its opening
\* quote): [ok, val, rest], rest being what follows the closing quote.
\* The literal ends at the first quote that is not escaped; a raw control
\* character or an unknown escape is an error.
ReadStringBody(s) ==
  LET ends == {i \in 1..Len(s) : s[i] = "\"" /\ ~IsEscaped(s, i)}
      close == IF ends = {} THEN 0 ELSE MinOf(ends)
      bad == {i \in 1..(close - 1) :
                \/ s[i] \in {"\n", "\r", "\t"}
                \/ IsEscaped(s, i) /\ Unescape(s[i]) = <<>>}
      \* the positions that yield a character: all but the backslash
      \* that opens an escape
      kept == SelectSeq([i \in 1..(close - 1) |-> i],
                        LAMBDA i : IsEscaped(s, i) \/ s[i] # "\\")
  IN IF close = 0 \/ bad # {}
     THEN [ok |-> FALSE, val |-> <<>>, rest |-> <<>>]
     ELSE [ok |-> TRUE,
           val |-> [k \in 1..Len(kept) |->
                      IF IsEscaped(s, kept[k]) THEN Unescape(s[kept[k]])[1]
                      ELSE s[kept[k]]],
           rest |-> Drop(s, close)]

\* Skips blanks, then reads one string literal.
ReadJsonString(s) ==
  LET t == TrimStart(s)
  IN IF t # <<>> /\ Head(t) = "\""
     THEN ReadStringBody(Tail(t))
     ELSE [ok |-> FALSE, val |-> <<>>, rest |-> <<>>]

\* A parse in progress: [ok, rest, name, path, version].
ParseOf(text) ==
  [ok |-> TRUE, rest |-> text, name |-> <<>>, path |-> <<>>, version |-> None]

\* Skips blanks, then expects the literal text lit.
ExpectLit(st, lit) ==
  IF ~st.ok THEN st
  ELSE LET t == TrimStart(st.rest)
       IN IF StartsWith(t, lit)
          THEN [st EXCEPT !.rest = Drop(t, Len(lit))]
          ELSE [st EXCEPT !.ok = FALSE]

\* Reads a string literal into the field `field` ("name" or "path").
ExpectString(st, field) ==
  IF ~st.ok THEN st
  ELSE LET r == ReadJsonString(st.rest)
       IN [st EXCEPT !.ok = r.ok, !.rest = r.rest, ![field] = r.val]

(***************************************************************************)
(* Browser {name, path, version} and Config {browser} (detect.rs 17-27),  *)
(* and their JSON form.                                                   *)
(***************************************************************************)
Browser(name, path, version) ==
  [name |-> name, path |-> path, version |-> version]

KeyBrowser == JsonString(<<"b","r","o","w","s","e","r">>)
KeyName == JsonString(<<"n","a","m","e">>)
KeyPath == JsonString(<<"p","a","t","h">>)
KeyVersion == JsonString(<<"v","e","r","s","i","o","n">>)
JsonNull == <<"n","u","l","l">>

\* An Option<String> value: null or a string literal.
JsonOptString(o) == IF IsSome(o) THEN JsonString(Unwrap(o)) ELSE JsonNull

\* serde_json::to_string_pretty(&Config {browser}): two-space indentation,
\* the fields in declaration order.
ConfigToJson(b) ==
  <<"{","\n"," "," ">> \o KeyBrowser \o <<":"," ","{","\n"," "," "," "," ">>
    \o KeyName \o <<":"," ">> \o JsonString(b.name) \o <<",","\n"," "," "," "," ">>
    \o KeyPath \o <<":"," ">> \o JsonString(b.path) \o <<",","\n"," "," "," "," ">>
    \o KeyVersion \o <<":"," ">> \o JsonOptString(b.version) \o <<"\n"," "," ","}","\n","}">>

\* The value of an Option<String> field: null or a string literal.
ExpectOptString(st) ==
  IF ~st.ok THEN st
  ELSE LET t == TrimStart(st.rest)
       IN IF StartsWith(t, JsonNull)
          THEN [st EXCEPT !.rest = Drop(t, Len(JsonNull)), !.version = None]
          ELSE LET r == ReadJsonString(t)
               IN [st EXCEPT !.ok = r.ok, !.rest = r.rest, !.version = Some(r.val)]

\* The "version" member, which may be missing (an absent version).
ExpectVersionMember(st) ==
  IF ~st.ok THEN st
  ELSE LET member == ExpectLit(ExpectLit(ExpectLit(st, <<",">>), KeyVersion), <<":">>)
       IN IF member.ok THEN ExpectOptString(member) ELSE st

\* serde_json::from_str::<Config>, for the texts the model puts in the
\* config file: what save_browser wrote, a cut-off write, or text that is
\* no JSON at all.  The members are read in the order save_browser writes
\* them; anything but blanks after the closing brace is an error.
\* Returns Option<Browser>.
ConfigFromJson(text) ==
  LET st ==
        ExpectLit(ExpectLit(
          ExpectVersionMember(
            ExpectString(ExpectLit(ExpectLit(ExpectLit(
              ExpectString(ExpectLit(ExpectLit(
                ExpectLit(ExpectLit(ExpectLit(ExpectLit(ParseOf(text),
                  <<"{">>), KeyBrowser), <<":">>), <<"{">>),
                KeyName), <<":">>), "name"),
              <<",">>), KeyPath), <<":">>), "path")),
          <<"}">>), <<"}">>)
  IN IF st.ok /\ TrimStart(st.rest) = <<>>
     THEN Some(Browser(st.name, st.path, st.version))
     ELSE None

(***************************************************************************)
(* The machine the program runs on (chosen in Init, read by the probes)   *)
(* and the state of one process: the config file, the report files, and   *)
(* where detect::run stands.                                              *)
(***************************************************************************)
VARIABLES
  target_os,    \* "linux", "windows" or "macos": the build's cfg!(target_os)
  files,        \* the regular files on disk (paths)
  links,        \* the symbolic links on disk: link path -> target path
  PATH,         \* the directories of the executable search path, in order
  registry,     \* StartMenuInternet entries, in enumeration order (windows)
  configFile,   \* browser_config.json: [state, text]
  reportFiles,  \* browsers.txt in the working directory: None or its lines
  pc,           \* where run() stands
  runs,         \* calls of run() so far
  detected,     \* run's `detected`
  selected,     \* run's `selected`: Option<Browser>
  result,       \* what run() returned: Option<Browser>
  choiceIn,     \* the line read by choose_browser_interactively, if any
  pathIn,       \* the line read by manual_select, if any
  log,          \* what this call of run() did to the outside world, in order
  mainPc,       \* where main() stands; "lib" when run() is called on its own
  command,      \* the command main() matched, if any
  linkFile,     \* ~/.quick_tabs_links.json: [state, links]
  aliasFile,    \* ~/.quick_tabs_aliases.json: [state, aliases]
  spawned,      \* the browser processes main() spawned: [program, args]
  mainLog,      \* what main() printed after discovery, in order
  exitCode,     \* the exit status of the process, once it ended
  link_config,  \* a LinkConfig in memory: its `links`
  expected_url, \* per tag, the URL of its last add_link not yet removed
  last_call,    \* the last call on link_config: [op, tag, url, before, removed]
  calls         \* calls on link_config so far

env == <<target_os, files, links, PATH, registry>>
callVars == <<link_config, expected_url, last_call, calls>>
mainVars == <<mainPc, command, linkFile, aliasFile, spawned, mainLog, exitCode>>
vars == <<target_os, files, links, PATH, registry, configFile, reportFiles,
          pc, runs, detected, selected, result, choiceIn, pathIn, log,
          mainPc, command, linkFile, aliasFile, spawned, mainLog, exitCode,
          link_config, expected_url, last_call, calls>>

\* ---- the files of the modelled machines --------------------------------
LxChrome == <<"/","u","s","r","/","b","i","n","/","c","h","r","o","m","e">>
LxLocalChrome == <<"/","u","s","r","/","l","o","c","a","l","/","b","i","n","/","c","h","r","o","m","e">>
LxOptChromium == <<"/","o","p","t","/","c","h","r","o","m","i","u","m","/","c","h","r","o","m","i","u","m">>
LxFoo == <<"/","u","s","r","/","b","i","n","/","f","o","o">>
LxGone == <<"/","u","s","r","/","b","i","n","/","g","o","n","e">>

ProgramFiles == <<"C",":","\\","P","r","o","g","r","a","m"," ","F","i","l","e","s">>
ProgramFilesX86 == <<"C",":","\\","P","r","o","g","r","a","m"," ","F","i","l","e","s"," ","(","x","8","6",")">>
LocalAppData == <<"C",":","\\","L","o","c","a","l">>
WinPfChrome == <<"C",":","\\","P","r","o","g","r","a","m"," ","F","i","l","e","s","\\","G","o","o","g","l","e","\\","C","h","r","o","m","e","\\","A","p","p","l","i","c","a","t","i","o","n","\\","c","h","r","o","m","e",".","e","x","e">>
WinLocalChrome == <<"C",":","\\","L","o","c","a","l","\\","P","r","o","g","r","a","m","s","\\","c","h","r","o","m","e",".","e","x","e">>
WinFoo == <<"C",":","\\","T","o","o","l","s","\\","f","o","o",".","e","x","e">>

MacChrome == <<"/","A","p","p","l","i","c","a","t","i","o","n","s","/","G","o","o","g","l","e"," ","C","h","r","o","m","e",".","a","p","p","/","C","o","n","t","e","n","t","s","/","M","a","c","O","S","/","G","o","o","g","l","e"," ","C","h","r","o","m","e">>
MacFirefox == <<"/","A","p","p","l","i","c","a","t","i","o","n","s","/","f","i","r","e","f","o","x",".","a","p","p","/","C","o","n","t","e","n","t","s","/","M","a","c","O","S","/","f","i","r","e","f","o","x">>

\* Browsers a saved config or a launch may name.
LxFirefox == <<"/","u","s","r","/","b","i","n","/","f","i","r","e","f","o","x">>
LxVivaldi == <<"/","o","p","t","/","v","i","v","a","l","d","i","/","v","i","v","a","l","d","i","-","s","t","a","b","l","e">>
LxBrave == <<"/","u","s","r","/","b","i","n","/","b","r","a","v","e","-","b","r","o","w","s","e","r">>
WinEdge == <<"C",":","\\","P","r","o","g","r","a","m"," ","F","i","l","e","s"," ","(","x","8","6",")","\\","M","i","c","r","o","s","o","f","t","\\","E","d","g","e","\\","A","p","p","l","i","c","a","t","i","o","n","\\","m","s","e","d","g","e",".","e","x","e">>
WinUpperFirefox == <<"C",":","\\","T","o","o","l","s","\\","F","I","R","E","F","O","X",".","E","X","E">>
MacSafari == <<"/","A","p","p","l","i","c","a","t","i","o","n","s","/","S","a","f","a","r","i",".","a","p","p","/","C","o","n","t","e","n","t","s","/","M","a","c","O","S","/","S","a","f","a","r","i">>

\* Values of the default value of ...\StartMenuInternet\<name>\shell\open\command
RegPfChrome ==
  [name |-> <<"G","o","o","g","l","e"," ","C","h","r","o","m","e">>,
   command |-> <<"\"","C",":","\\","P","r","o","g","r","a","m"," ","F","i","l","e","s","\\","G","o","o","g","l","e","\\","C","h","r","o","m","e","\\","A","p","p","l","i","c","a","t","i","o","n","\\","c","h","r","o","m","e",".","e","x","e","\"">>]
RegPfChromeArgs ==
  [name |-> <<"G","o","o","g","l","e"," ","C","h","r","o","m","e",".","A","R","G","S">>,
   command |-> <<"\"","C",":","\\","P","r","o","g","r","a","m"," ","F","i","l","e","s","\\","G","o","o","g","l","e","\\","C","h","r","o","m","e","\\","A","p","p","l","i","c","a","t","i","o","n","\\","c","h","r","o","m","e",".","e","x","e","\""," ","-","-"," ","\"","%","1","\"">>]
RegLocalChrome ==
  [name |-> <<"C","h","r","o","m","e",".","U","S","E","R">>,
   command |-> <<"\"","C",":","\\","L","o","c","a","l","\\","P","r","o","g","r","a","m","s","\\","c","h","r","o","m","e",".","e","x","e","\""," ","-","-","s","i","n","g","l","e","-","a","r","g","u","m","e","n","t">>]

\* ---- Path ---------------------------------------------------------------
\* Path::exists: follows symbolic links.
PathExists(p) ==
  \/ p \in files
  \/ p \in DOMAIN links /\ links[p] \in files

\* The path after symlink resolution (fs::canonicalize), for existing paths.
Canonical(p) == IF p \in DOMAIN links THEN links[p] ELSE p

MainSeparator == IF target_os = "windows" THEN "\\" ELSE "/"

\* Path::join of a directory and a file name.
JoinPath(dir, name) ==
  IF dir # <<>> /\ dir[Len(dir)] = MainSeparator
  THEN dir \o name
  ELSE dir \o <<MainSeparator>> \o name

\* which::which(exec): the first directory of PATH that holds the file.
Which(exec) ==
  LET hits == {i \in 1..Len(PATH) : PathExists(JoinPath(PATH[i], exec))}
  IN IF hits = {} THEN None ELSE Some(JoinPath(PATH[MinOf(hits)], exec))

\* What running `path --version` does on the modelled machine: whether
\* the process could be spawned, whether it ever exits, its exit status
\* and its stdout.
VersionRun(path) ==
  LET f == Canonical(path)
  IN CASE f = LxChrome ->
            [spawned |-> TRUE, exits |-> TRUE, status |-> 0,
             stdout |-> <<"G","o","o","g","l","e"," ","C","h","r","o","m","e"," ","1","2","0",".","0"," ","\n","e","x","t","r","a">>]
       [] f = LxLocalChrome ->
            [spawned |-> FALSE, exits |-> TRUE, status |-> 0, stdout |-> <<>>]
       [] f = LxOptChromium ->
            [spawned |-> TRUE, exits |-> TRUE, status |-> 1, stdout |-> <<>>]
       [] f = WinPfChrome ->
            [spawned |-> TRUE, exits |-> TRUE, status |-> 0, stdout |-> <<"C","h","r","o","m","e"," ","\"","s","t","a","b","l","e","\""," ","1","2","0","\n">>]
       [] f = WinLocalChrome ->
            [spawned |-> TRUE, exits |-> TRUE, status |-> 0, stdout |-> <<"C",":","\\","v"," ","1","\n">>]
       [] f = WinFoo ->
            [spawned |-> TRUE, exits |-> TRUE, status |-> 0, stdout |-> <<"f","o","o"," ","2",".","1","\r","\n">>]
       [] f = MacChrome ->
            [spawned |-> TRUE, exits |-> TRUE, status |-> 0, stdout |-> <<"\n">>]
       [] f = MacFirefox ->
            [spawned |-> TRUE, exits |-> FALSE, status |-> 0, stdout |-> <<>>]
       [] f = LxFirefox ->
            [spawned |-> TRUE, exits |-> TRUE, status |-> 0, stdout |-> <<"M","o","z","i","l","l","a"," ","F","i","r","e","f","o","x"," ","1","2","1",".","0","\n">>]
       [] f \in {WinEdge, WinUpperFirefox, LxVivaldi, LxBrave, MacSafari} ->
            [spawned |-> TRUE, exits |-> TRUE, status |-> 0, stdout |-> <<"1",".","0","\n">>]
       [] OTHER ->
            [spawned |-> FALSE, exits |-> TRUE, status |-> 0, stdout |-> <<>>]

(***************************************************************************)
(* Detection (detect.rs 64-230).  A probe returns what it found and the   *)
(* events it caused, in the order the code causes them: "which" (a search *)
(* of PATH), "stat" (Path::exists), "spawn" (a --version subprocess),     *)
(* "registry" (a read of a registry command).                             *)
(***************************************************************************)
known_browsers ==
  << <<<<"G","o","o","g","l","e"," ","C","h","r","o","m","e">>, <<"c","h","r","o","m","e">>>>,
     <<<<"M","o","z","i","l","l","a"," ","F","i","r","e","f","o","x">>, <<"f","i","r","e","f","o","x">>>>,
     <<<<"B","r","a","v","e">>, <<"b","r","a","v","e">>>>,
     <<<<"M","i","c","r","o","s","o","f","t"," ","E","d","g","e">>, <<"m","s","e","d","g","e">>>>,
     <<<<"O","p","e","r","a">>, <<"o","p","e","r","a">>>>,
     <<<<"C","h","r","o","m","i","u","m">>, <<"c","h","r","o","m","i","u","m">>>> >>

get_executable_name(base) ==
  IF target_os = "windows" THEN base \o <<".","e","x","e">> ELSE base

\* Output::stdout of a spawned process, first line, trimmed; a process that
\* could not be spawned gives None.  The exit status is not looked at.
get_version(path) ==
  LET out == VersionRun(path)
  IN IF out.spawned THEN Some(Trim(FirstLine(out.stdout))) ELSE None

\* str::replace(pat, ""): the characters of s outside every occurrence of
\* pat (for a pat that cannot overlap itself, as ".exe").
RemoveAll(s, pat) ==
  LET starts == {i \in 1..Len(s) : StartsWith(Drop(s, i - 1), pat)}
      kept == SelectSeq([i \in 1..Len(s) |-> i],
                        LAMBDA i : ~\E j \in starts : j <= i /\ i < j + Len(pat))
  IN [k \in 1..Len(kept) |-> s[kept[k]]]

common_paths(exec) ==
  IF target_os = "windows"
  THEN << ProgramFiles \o <<"\\","G","o","o","g","l","e","\\","C","h","r","o","m","e","\\","A","p","p","l","i","c","a","t","i","o","n","\\">> \o exec,
          ProgramFilesX86 \o <<"\\","G","o","o","g","l","e","\\","C","h","r","o","m","e","\\","A","p","p","l","i","c","a","t","i","o","n","\\">> \o exec,
          ProgramFiles \o <<"\\","M","o","z","i","l","l","a"," ","F","i","r","e","f","o","x","\\">> \o exec,
          ProgramFilesX86 \o <<"\\","M","i","c","r","o","s","o","f","t","\\","E","d","g","e","\\","A","p","p","l","i","c","a","t","i","o","n","\\">> \o exec,
          ProgramFiles \o <<"\\","B","r","a","v","e","S","o","f","t","w","a","r","e","\\","B","r","a","v","e","-","B","r","o","w","s","e","r","\\","A","p","p","l","i","c","a","t","i","o","n","\\">> \o exec,
          LocalAppData \o <<"\\","P","r","o","g","r","a","m","s","\\">> \o exec >>
  ELSE IF target_os = "macos"
  THEN LET base_name == RemoveAll(exec, <<".","e","x","e">>)
       IN << <<"/","A","p","p","l","i","c","a","t","i","o","n","s","/">> \o base_name \o <<".","a","p","p","/","C","o","n","t","e","n","t","s","/","M","a","c","O","S","/">>
               \o base_name >>
          \o (IF base_name = <<"c","h","r","o","m","e">>
              THEN << <<"/","A","p","p","l","i","c","a","t","i","o","n","s","/","G","o","o","g","l","e"," ","C","h","r","o","m","e",".","a","p","p","/","C","o","n","t","e","n","t","s","/","M","a","c","O","S","/","G","o","o","g","l","e"," ","C","h","r","o","m","e">> >>
              ELSE << >>)
  ELSE << <<"/","u","s","r","/","b","i","n","/">> \o exec,
          <<"/","u","s","r","/","l","o","c","a","l","/","b","i","n","/">> \o exec,
          <<"/","s","n","a","p","/","b","i","n","/">> \o exec,
          <<"/","o","p","t","/">> \o exec \o <<"/">> \o exec >>

\* Whether some browser of the list has this path (PathBuf equality; every
\* path of the model is written in one normal form, so it is text equality).
HasPath(found, path) == \E i \in 1..Len(found) : found[i].path = path

\* The loop over common_paths of detect_browser (lines 122-130).
RECURSIVE ProbeCommonPaths(_, _, _)
ProbeCommonPaths(name, candidates, acc) ==
  IF candidates = <<>> THEN acc
  ELSE LET candidate == Head(candidates)
       IN ProbeCommonPaths(name, Tail(candidates),
            IF PathExists(candidate) /\ ~HasPath(acc.found, candidate)
            THEN [found |-> Append(acc.found,
                              Browser(name, candidate, get_version(candidate))),
                  events |-> acc.events \o <<"stat", "spawn">>]
            ELSE [found |-> acc.found, events |-> Append(acc.events, "stat")])

\* Mutant of detect_browser: a version probe that fails ends the probing
\* of the browser.
detect_browser_until_failure(name, base_exec) ==
  LET exec_name == get_executable_name(base_exec)
      hit == Which(exec_name)
  IN IF IsSome(hit) /\ get_version(Unwrap(hit)) = None
     THEN [found |-> <<>>, events |-> <<"which", "spawn">>]
     ELSE ProbeCommonPaths(name, common_paths(exec_name),
            IF IsSome(hit)
            THEN [found |-> <<Browser(name, Unwrap(hit), get_version(Unwrap(hit)))>>,
                  events |-> <<"which", "spawn">>]
            ELSE [found |-> <<>>, events |-> <<"which">>])

detect_browser(name, base_exec) ==
  LET exec_name == get_executable_name(base_exec)
      hit == Which(exec_name)
      onPath ==
        IF IsSome(hit)
        THEN [found |-> <<Browser(name, Unwrap(hit), get_version(Unwrap(hit)))>>,
              events |-> <<"which", "spawn">>]
        ELSE [found |-> <<>>, events |-> <<"which">>]
  IN ProbeCommonPaths(name, common_paths(exec_name), onPath)

\* val.split_whitespace().next().unwrap_or(&val)
FirstWord(val) ==
  LET t == TrimStart(val)
      blanks == {i \in 1..Len(t) : IsWhitespace(t[i])}
  IN IF t = <<>> THEN val
     ELSE IF blanks = {} THEN t
     ELSE SubSeq(t, 1, MinOf(blanks) - 1)

\* str::trim_matches('"')
TrimQuotes(s) ==
  LET inner == {i \in 1..Len(s) : s[i] # "\""}
  IN IF inner = {} THEN <<>> ELSE SubSeq(s, MinOf(inner), MaxOf(inner))

\* The index of the last occurrence of a character of cs in s, or 0.
LastIndexOf(s, cs) ==
  LET at == {i \in 1..Len(s) : s[i] \in cs}
  IN IF at = {} THEN 0 ELSE MaxOf(at)

\* Path::file_stem on windows: the last component without its extension.
FileStem(path) ==
  LET cut == LastIndexOf(path, {"\\", "/"})
      file == Drop(path, cut)
      dot == LastIndexOf(file, {"."})
  IN IF file = <<>> THEN None
     ELSE IF dot <= 1 THEN Some(file)
     ELSE Some(SubSeq(file, 1, dot - 1))

\* probe_registry (windows only): one step per registry entry.
RECURSIVE ProbeRegistryEntries(_, _)
ProbeRegistryEntries(entries, acc) ==
  IF entries = <<>> THEN acc
  ELSE LET val == Head(entries).command
           cleaned == TrimQuotes(FirstWord(val))
           stem == FileStem(cleaned)
           exe_name == IF IsSome(stem) THEN Unwrap(stem) ELSE Head(entries).name
       IN ProbeRegistryEntries(Tail(entries),
            IF PathExists(cleaned)
            THEN [found |-> Append(acc.found,
                              Browser(exe_name, cleaned, get_version(cleaned))),
                  events |-> acc.events \o <<"registry", "stat", "spawn">>]
            ELSE [found |-> acc.found,
                  events |-> acc.events \o <<"registry", "stat">>])

probe_registry == ProbeRegistryEntries(registry, [found |-> <<>>, events |-> <<>>])

\* found.extend(r) for each probe result of rs[lo..hi], in order (by halves).
RECURSIVE ExtendAll(_, _, _)
ExtendAll(rs, lo, hi) ==
  IF lo > hi THEN [found |-> <<>>, events |-> <<>>]
  ELSE IF lo = hi THEN rs[lo]
  ELSE LET left == ExtendAll(rs, lo, (lo + hi) \div 2)
           right == ExtendAll(rs, (lo + hi) \div 2 + 1, hi)
       IN [found |-> left.found \o right.found,
           events |-> left.events \o right.events]

\* The loop over known_browsers of detect_all_browsers (lines 79-81).
ProbeKnown ==
  ExtendAll([i \in 1..Len(known_browsers) |->
               detect_browser(known_browsers[i][1], known_browsers[i][2])],
            1, Len(known_browsers))

\* Lines 90-93: filter(|b| unique_paths.insert(b.path.clone())).
RECURSIVE DedupFrom(_, _)
DedupFrom(found, unique_paths) ==
  IF found = <<>> THEN <<>>
  ELSE IF Head(found).path \in unique_paths
  THEN DedupFrom(Tail(found), unique_paths)
  ELSE <<Head(found)>> \o DedupFrom(Tail(found), unique_paths \cup {Head(found).path})

\* Mutants of Dedup: no deduplication; deduplication by name.
DedupOff(found) == found

RECURSIVE DedupByNameFrom(_, _)
DedupByNameFrom(found, names) ==
  IF found = <<>> THEN <<>>
  ELSE IF Head(found).name \in names
  THEN DedupByNameFrom(Tail(found), names)
  ELSE <<Head(found)>> \o DedupByNameFrom(Tail(found), names \cup {Head(found).name})

DedupByName(found) == DedupByNameFrom(found, {})

Dedup(found) == DedupFrom(found, {})

\* Everything the probes emitted, before deduplication (`found`, line 76-87).
ProbeAll ==
  IF target_os = "windows"
  THEN [found |-> ProbeKnown.found \o probe_registry.found,
        events |-> ProbeKnown.events \o probe_registry.events]
  ELSE ProbeKnown

detect_all_browsers ==
  [found |-> Dedup(ProbeAll.found), events |-> ProbeAll.events]

\* Command::output() waits for the child without a time limit (line 188):
\* get_version does not return for a process that never exits.
Hangs(path) == VersionRun(path).spawned /\ ~VersionRun(path).exits

\* The probes of a detection whose version subprocess never exits; every
\* entry of ProbeAll.found stands for one "spawn" event, in order.
HangingProbes == {k \in 1..Len(ProbeAll.found) : Hangs(ProbeAll.found[k].path)}

\* The events of a detection up to the subprocess it waits for forever.
EventsUntilHang ==
  LET events == ProbeAll.events
      spawns == SelectSeq([i \in 1..Len(events) |-> i],
                          LAMBDA i : events[i] = "spawn")
  IN SubSeq(events, 1, spawns[MinOf(HangingProbes)])

(***************************************************************************)
(* ConfigStore (detect.rs 298-322) and the report files (325-343).        *)
(***************************************************************************)
\* Mutant of load_saved_browser: the stored path is not looked up on disk.
load_saved_browser_unchecked ==
  IF configFile.state = "present"
  THEN ConfigFromJson(configFile.text)
  ELSE None

\* load_saved_browser: the file exists, can be read, parses, and the path
\* it names exists.
load_saved_browser ==
  IF configFile.state = "present"
  THEN LET cfg == ConfigFromJson(configFile.text)
       IN IF IsSome(cfg) /\ PathExists(Unwrap(cfg).path) THEN cfg ELSE None
  ELSE None

\* Mutant of save_browser: the version is not written.
save_browser_without_version(browser, outcome) ==
  CASE outcome = "ok" ->
         [state |-> "present",
          text |-> ConfigToJson(Browser(browser.name, browser.path, None))]
    [] outcome = "write_failed" -> [state |-> "present", text |-> <<>>]
    [] OTHER -> configFile

\* Mutant of save_browser: a config file that exists is left as it is.
save_browser_if_absent(browser, outcome) ==
  IF configFile.state = "absent" /\ outcome = "ok"
  THEN [state |-> "present", text |-> ConfigToJson(browser)]
  ELSE configFile

\* The config file after save_browser(browser), fs::write ending as
\* `outcome`: "ok"; "open_failed" (the file could not be created or opened:
\* nothing changes); "write_failed" (opened, hence truncated, but not
\* written).  The paths of the model are UTF-8, so serialising succeeds.
save_browser(browser, outcome) ==
  CASE outcome = "ok" -> [state |-> "present", text |-> ConfigToJson(browser)]
    [] outcome = "write_failed" -> [state |-> "present", text |-> <<>>]
    [] OTHER -> configFile

WriteOutcomes == {"ok", "open_failed", "write_failed"}

\* browsers.txt: one "name = path" line per browser.
RECURSIVE ReportLines(_)
ReportLines(found) ==
  IF found = <<>> THEN <<>>
  ELSE <<Head(found).name \o <<" ","="," ">> \o Head(found).path>>
         \o ReportLines(Tail(found))

\* write_outputs: browsers.json, then browsers.txt; the first failed write
\* ends it.  reportFiles holds what each file holds (None: not written).
write_outputs(found, outcome) ==
  CASE outcome = "ok" -> [json |-> Some(found), txt |-> Some(ReportLines(found))]
    [] outcome = "txt_failed" -> [json |-> Some(found), txt |-> reportFiles.txt]
    [] OTHER -> reportFiles

ReportOutcomes == {"ok", "json_failed", "txt_failed"}

(***************************************************************************)
(* Selection (detect.rs 42-53, 234-286).                                  *)
(***************************************************************************)
CustomBrowserName == <<"C","u","s","t","o","m"," ","B","r","o","w","s","e","r">>

\* Mutant of ChoiceOf: the last listed index is out of range.
ChoiceOfBelow(line, n) ==
  LET choice == Trim(line)
      index == ParseUsize(choice)
  IN IF EqIgnoreAsciiCaseM(choice) THEN [kind |-> "manual", index |-> 0]
     ELSE IF IsSome(index) /\ Unwrap(index) > 0 /\ Unwrap(index) < n
     THEN [kind |-> "index", index |-> Unwrap(index)]
     ELSE [kind |-> "invalid", index |-> 0]

\* How choose_browser_interactively reads a line when n browsers are
\* listed (lines 245-260): "manual" (the M entry), "index" with the
\* 1-based index, or "invalid".
ChoiceOf(line, n) ==
  LET choice == Trim(line)
      index == ParseUsize(choice)
  IN IF EqIgnoreAsciiCaseM(choice) THEN [kind |-> "manual", index |-> 0]
     ELSE IF IsSome(index) /\ Unwrap(index) > 0 /\ Unwrap(index) <= n
     THEN [kind |-> "index", index |-> Unwrap(index)]
     ELSE [kind |-> "invalid", index |-> 0]

\* Mutant of ManualOf: the line is not trimmed.
ManualOfUntrimmed(line) ==
  IF PathExists(line)
  THEN Some(Browser(CustomBrowserName, line, get_version(line)))
  ELSE None

\* Mutant of ManualOf: the path is not looked up on disk.
ManualOfUnchecked(line) ==
  Some(Browser(CustomBrowserName, Trim(line), get_version(Trim(line))))

\* What manual_select returns for a line (lines 273-285).
ManualOf(line) ==
  LET path == Trim(line)
  IN IF PathExists(path)
     THEN Some(Browser(CustomBrowserName, path, get_version(path)))
     ELSE None

\* ---- what the user may type ---------------------------------------------
\* Lines for the "Enter choice" prompt; <<>> is end of input.
ChoiceLines ==
  { <<>>, <<"\n">>, <<"m","\n">>, <<"M">>, <<" "," ","m"," ","\n">>, <<"m","m","\n">>,
    <<"1","\n">>, <<" ","2"," ","\n">>, <<"3","\n">>, <<"0","\n">>, <<"9","9","\n">>, <<"a","b","c","\n">>,
    <<"+","1","\n">>, <<"-","1","\n">>, <<"0","2","\n">>, <<"1"," ","2","\n">> }

\* Lines for the "Path" prompt.
ManualLines ==
  IF target_os = "windows"
  THEN { <<>>, WinFoo \o <<"\r", "\n">>, WinLocalChrome \o <<"\n">>,
         <<"C",":","\\","T","o","o","l","s","\\","g","o","n","e",".","e","x","e","\n">> }
  ELSE { <<>>, LxFoo \o <<"\n">>, <<" ", " ">> \o LxFoo \o <<" ", "\n">>,
         LxGone \o <<"\n">>, LxChrome \o <<"\n">> }

\* io::stdin().read_line: Some(line), or None for a read error.
ReadLine(lines) == {None} \cup {Some(l) : l \in lines}

(***************************************************************************)
(* detect::run, stage by stage.                                           *)
(***************************************************************************)
MaxRuns == 1

\* Mutant of SelectionArm: an empty list is offered for choice.
SelectionArmWithoutNone(len) ==
  CASE len = 1 -> "only"
    [] OTHER -> "choose"

\* Mutant of SelectionArm: a single candidate is offered for choice.
SelectionArmWithoutOnly(len) ==
  CASE len = 0 -> "none"
    [] OTHER -> "choose"

\* The arm of `match detected.len()` taken (lines 42-53).
SelectionArm(len) ==
  CASE len = 0 -> "none"
    [] len = 1 -> "only"
    [] OTHER -> "choose"

\* A call of run() begins (line 32): get_app_config_path.
CallRun ==
  /\ pc' = "load"
  /\ runs' = runs + 1
  /\ detected' = <<>>
  /\ selected' = None
  /\ result' = None
  /\ choiceIn' = None
  /\ pathIn' = None
  /\ log' = <<"create_config_dir">>
  /\ UNCHANGED <<env, callVars, configFile, reportFiles>>

\* run() is called on its own, at most MaxRuns times.
Start ==
  /\ mainPc = "lib"
  /\ pc \in {"idle", "done"}
  /\ runs < MaxRuns
  /\ CallRun
  /\ UNCHANGED mainVars

\* Mutant of LoadSaved: no early return, detection runs in any case.
LoadSavedThenDetect ==
  /\ pc = "load"
  /\ log' = Append(log, "read_config")
  /\ result' = result
  /\ pc' = "detect"
  /\ UNCHANGED mainVars
  /\ UNCHANGED <<env, callVars, configFile, reportFiles, runs, detected, selected,
                 choiceIn, pathIn>>

\* Lines 34-37: a valid saved browser is returned at once.
LoadSaved ==
  /\ pc = "load"
  /\ log' = Append(log, "read_config")
  /\ IF IsSome(load_saved_browser)
     THEN /\ result' = load_saved_browser
          /\ pc' = "done"
     ELSE /\ result' = result
          /\ pc' = "detect"
  /\ UNCHANGED mainVars
  /\ UNCHANGED <<env, callVars, configFile, reportFiles, runs, detected, selected,
                 choiceIn, pathIn>>

\* Line 39: detect_all_browsers; it does not return when a version
\* subprocess never exits.
Detect ==
  /\ pc = "detect"
  /\ IF HangingProbes = {}
     THEN /\ detected' = detect_all_browsers.found
          /\ log' = log \o detect_all_browsers.events
          /\ pc' = "report"
     ELSE /\ detected' = detected
          /\ log' = log \o EventsUntilHang
          /\ pc' = "hung"
  /\ UNCHANGED mainVars
  /\ UNCHANGED <<env, callVars, configFile, reportFiles, runs, selected, result,
                 choiceIn, pathIn>>

\* Line 40: write_outputs(&detected).ok().
WriteOutputs ==
  /\ pc = "report"
  /\ \E outcome \in ReportOutcomes :
       reportFiles' = write_outputs(detected, outcome)
  /\ log' = Append(log, "write_report")
  /\ pc' = "select"
  /\ UNCHANGED mainVars
  /\ UNCHANGED <<env, callVars, configFile, runs, detected, selected, result,
                 choiceIn, pathIn>>

\* Lines 43-46: no browser detected.
SelectNone ==
  /\ pc = "select"
  /\ SelectionArm(Len(detected)) = "none"
  /\ pc' = "manual"
  /\ log' = Append(log, "print_no_browsers")
  /\ UNCHANGED mainVars
  /\ UNCHANGED <<env, callVars, configFile, reportFiles, runs, detected, selected,
                 result, choiceIn, pathIn>>

\* Lines 47-51: exactly one browser detected; detected.remove(0) takes it
\* out of the list.
SelectOnly ==
  /\ pc = "select"
  /\ SelectionArm(Len(detected)) = "only"
  /\ selected' = Some(detected[1])
  /\ detected' = Tail(detected)
  /\ pc' = "save"
  /\ log' = Append(log, "print_auto_selected")
  /\ UNCHANGED mainVars
  /\ UNCHANGED <<env, callVars, configFile, reportFiles, runs, result, choiceIn, pathIn>>

\* Mutant of Choose: the version of the chosen browser is probed again.
ChooseAndReprobe ==
  /\ pc = "select"
  /\ SelectionArm(Len(detected)) = "choose"
  /\ \E input \in ReadLine(ChoiceLines) :
       /\ choiceIn' = input
       /\ IF input = None
          THEN /\ selected' = None
               /\ pc' = "save"
               /\ log' = log \o <<"prompt_choice", "read_line">>
          ELSE LET c == ChoiceOf(Unwrap(input), Len(detected))
               IN CASE c.kind = "manual" ->
                         /\ selected' = selected
                         /\ pc' = "manual"
                         /\ log' = log \o <<"prompt_choice", "read_line">>
                    [] c.kind = "index" ->
                         /\ selected' = Some(detected[c.index])
                         /\ pc' = "save"
                         /\ log' = log \o <<"prompt_choice", "read_line",
                                            "print_selected", "spawn">>
                    [] OTHER ->
                         /\ selected' = selected
                         /\ pc' = "manual"
                         /\ log' = log \o <<"prompt_choice", "read_line",
                                            "print_invalid_choice">>
  /\ UNCHANGED mainVars
  /\ UNCHANGED <<env, callVars, configFile, reportFiles, runs, detected, result, pathIn>>

\* Line 52 and lines 234-260: choose_browser_interactively, up to its
\* return or its call of manual_select.
Choose ==
  /\ pc = "select"
  /\ SelectionArm(Len(detected)) = "choose"
  /\ \E input \in ReadLine(ChoiceLines) :
       /\ choiceIn' = input
       /\ IF input = None
          THEN /\ selected' = None
               /\ pc' = "save"
               /\ log' = log \o <<"prompt_choice", "read_line">>
          ELSE LET c == ChoiceOf(Unwrap(input), Len(detected))
               IN CASE c.kind = "manual" ->
                         /\ selected' = selected
                         /\ pc' = "manual"
                         /\ log' = log \o <<"prompt_choice", "read_line">>
                    [] c.kind = "index" ->
                         /\ selected' = Some(detected[c.index])
                         /\ pc' = "save"
                         /\ log' = log \o <<"prompt_choice", "read_line",
                                            "print_selected">>
                    [] OTHER ->
                         /\ selected' = selected
                         /\ pc' = "manual"
                         /\ log' = log \o <<"prompt_choice", "read_line",
                                            "print_invalid_choice">>
  /\ UNCHANGED mainVars
  /\ UNCHANGED <<env, callVars, configFile, reportFiles, runs, detected, result, pathIn>>

\* Lines 263-286: manual_select.
ManualSelect ==
  /\ pc = "manual"
  /\ \E input \in ReadLine(ManualLines) :
       /\ pathIn' = input
       /\ IF input = None
          THEN /\ selected' = None
               /\ log' = log \o <<"prompt_path", "read_line", "print_read_error">>
          ELSE /\ selected' = ManualOf(Unwrap(input))
               /\ log' = log \o <<"prompt_path", "read_line", "stat">>
                           \o (IF IsSome(ManualOf(Unwrap(input)))
                               THEN <<"print_browser_added", "spawn">>
                               ELSE <<"print_invalid_path">>)
       /\ pc' = IF input # None /\ IsSome(ManualOf(Unwrap(input)))
                   /\ Hangs(Unwrap(ManualOf(Unwrap(input))).path)
                THEN "hung" ELSE "save"
  /\ UNCHANGED mainVars
  /\ UNCHANGED <<env, callVars, configFile, reportFiles, runs, detected, result, choiceIn>>

\* Mutant of SaveAndReturn: a failed write makes run() return no browser.
SaveOrReturnNone ==
  /\ pc = "save"
  /\ IF IsSome(selected)
     THEN \E outcome \in WriteOutcomes :
            /\ configFile' = save_browser(Unwrap(selected), outcome)
            /\ log' = log \o <<"write_config",
                               IF outcome = "ok" THEN "print_saved"
                               ELSE "print_could_not_save">>
            /\ result' = IF outcome = "ok" THEN selected ELSE None
     ELSE /\ configFile' = configFile
          /\ log' = log
          /\ result' = selected
  /\ pc' = "done"
  /\ UNCHANGED mainVars
  /\ UNCHANGED <<env, callVars, reportFiles, runs, detected, selected, choiceIn, pathIn>>

\* Lines 55-59: save_browser for a selection, and the return.
SaveAndReturn ==
  /\ pc = "save"
  /\ IF IsSome(selected)
     THEN \E outcome \in WriteOutcomes :
            /\ configFile' = save_browser(Unwrap(selected), outcome)
            /\ log' = log \o <<"write_config",
                               IF outcome = "ok" THEN "print_saved"
                               ELSE "print_could_not_save">>
     ELSE /\ configFile' = configFile
          /\ log' = log
  /\ result' = selected
  /\ pc' = "done"
  /\ UNCHANGED mainVars
  /\ UNCHANGED <<env, callVars, reportFiles, runs, detected, selected, choiceIn, pathIn>>

\* The prefixes of a text that a write cut short may leave on disk.
CutPoints(text) == {0, Len(text) \div 2, Len(text)}

\* The config file after the process is stopped inside save_browser:
\* untouched before fs::write opens it; from then on truncated and holding
\* a prefix of the new text (line 316 writes the target in place).
InterruptedSave(browser) ==
  {configFile} \cup
  {[state |-> "present", text |-> SubSeq(ConfigToJson(browser), 1, n)] :
     n \in CutPoints(ConfigToJson(browser))}

\* The process is stopped while save_browser runs (lines 55-57, 311-322).
Interrupt ==
  /\ pc = "save"
  /\ IsSome(selected)
  /\ configFile' \in InterruptedSave(Unwrap(selected))
  /\ pc' = "killed"
  /\ UNCHANGED mainVars
  /\ UNCHANGED <<env, callVars, reportFiles, runs, detected, selected, result, choiceIn,
                 pathIn, log>>

Next ==
  \/ Start
  \/ LoadSaved
  \/ Detect
  \/ WriteOutputs
  \/ SelectNone
  \/ SelectOnly
  \/ Choose
  \/ ManualSelect
  \/ SaveAndReturn

\* The same, on a machine where the process can be killed or the power can
\* fail while save_browser writes the config file.
NextCrash ==
  \/ Next
  \/ Interrupt

\* ---- a LinkConfig in memory ---------------------------------------------
LinkTags == {"docs", "news", "blog"}
NoCall == [op |-> "none", tag |-> "", url |-> "", before |-> <<>>, removed |-> FALSE]

\* No LinkConfig is in use.
NoCalls ==
  /\ link_config = <<>>
  /\ expected_url = [t \in LinkTags |-> None]
  /\ last_call = NoCall
  /\ calls = 0

(***************************************************************************)
(* The initial states: a machine, and a config file left by earlier use.  *)
(***************************************************************************)
NoLinks == <<>>

\* main() has not matched a command.
Cmd(name, tag, url, incognito) ==
  [name |-> name, tag |-> tag, url |-> url, incognito |-> incognito]

NoCommand == Cmd("none", "", "", FALSE)

\* A record an earlier run saved.
SavedBefore ==
  Browser(CustomBrowserName,
          IF target_os = "windows" THEN WinFoo ELSE LxFoo,
          Some(<<"1",".","0">>))

ConfigFilesBefore ==
  { [state |-> "absent", text |-> <<>>],
    [state |-> "unreadable", text |-> ConfigToJson(SavedBefore)],
    [state |-> "present", text |-> <<"b","r","o","w","s","e","r"," ","="," ","f","i","r","e","f","o","x">>],
    [state |-> "present", text |-> ConfigToJson(SavedBefore)],
    [state |-> "present",
     text |-> SubSeq(ConfigToJson(SavedBefore), 1, Len(ConfigToJson(SavedBefore)) - 4)] }

InitMachine ==
  \/ /\ target_os = "linux"
     /\ files \in SUBSET {LxChrome, LxLocalChrome, LxOptChromium, LxFoo}
     /\ links \in {NoLinks} \cup
                  (IF LxOptChromium \in files THEN {}
                   ELSE {LxOptChromium :> LxChrome})
     /\ PATH \in { <<>>, <<<<"/","u","s","r","/","l","o","c","a","l","/","b","i","n">>, <<"/","u","s","r","/","b","i","n">>>> }
     /\ registry = <<>>
  \/ /\ target_os = "windows"
     /\ files \in SUBSET {WinPfChrome, WinLocalChrome, WinFoo}
     /\ links = NoLinks
     /\ PATH \in { <<>>, <<<<"C",":","\\","L","o","c","a","l","\\","P","r","o","g","r","a","m","s">>>> }
     /\ registry \in { <<>>, <<RegPfChrome, RegLocalChrome>>,
                       <<RegLocalChrome, RegLocalChrome>>,
                       <<RegPfChromeArgs, RegLocalChrome>> }
  \/ /\ target_os = "macos"
     /\ files \in SUBSET {MacChrome, MacFirefox, LxFoo}
     /\ links = NoLinks
     /\ PATH = <<>>
     /\ registry = <<>>

Init ==
  /\ InitMachine
  /\ configFile \in ConfigFilesBefore
  /\ reportFiles = [json |-> None, txt |-> None]
  /\ pc = "idle"
  /\ runs = 0
  /\ detected = <<>>
  /\ selected = None
  /\ result = None
  /\ choiceIn = None
  /\ pathIn = None
  /\ log = <<>>
  /\ mainPc = "lib"
  /\ command = NoCommand
  /\ linkFile = [state |-> "absent", links |-> <<>>]
  /\ aliasFile = [state |-> "absent", aliases |-> <<>>]
  /\ spawned = <<>>
  /\ mainLog = <<>>
  /\ exitCode = None
  /\ NoCalls

Spec == Init /\ [][Next]_vars

SpecCrash == Init /\ [][NextCrash]_vars

\* run() moves on from a stage it can leave: each of these stages has a
\* step of Next, and every such step changes pc.
RunAdvances ==
  /\ pc \in {"load", "detect", "report", "select", "manual", "save"}
  /\ pc' \in {"report", "select", "manual", "save", "done", "detect",
             "hung"} \ {pc}

\* The process is scheduled, and the user answers a prompt: a stage that
\* can be left is left in the end.
SpecFair == Spec /\ WF_pc(RunAdvances)

(***************************************************************************)
(* main (main.rs 69-168), the link and alias stores, and the launcher     *)
(* (links.rs, aliases.rs).  A store file is held as its state and the     *)
(* value serde_json reads from its text.                                   *)
(***************************************************************************)
Tags == {"docs", "news"}
Urls == {"https://a.example", "https://b.example"}

\* What `launch <target>` may name: a tag, or a URL given as it is.
Targets == Tags \cup {"https://c.example"}

Link(tag, url) == [tag |-> tag, url |-> url]

\* LinkConfig::load (links.rs 32-47): a file that is absent, cannot be
\* read or does not parse gives no links.
LinkConfig_load == IF linkFile.state = "present" THEN linkFile.links ELSE <<>>

\* Mutant of add_link: the links of the tag are not taken out first.
add_link_keeping_old(cfg, tag, url) == Append(cfg, Link(tag, url))

\* LinkConfig::add_link (links.rs 54-60).
add_link(cfg, tag, url) ==
  Append(SelectSeq(cfg, LAMBDA l : l.tag # tag), Link(tag, url))

\* LinkConfig::get_url (links.rs 62-64).
get_url(cfg, tag) ==
  LET at == {i \in 1..Len(cfg) : cfg[i].tag = tag}
  IN IF at = {} THEN None ELSE Some(cfg[MinOf(at)].url)

\* LinkConfig::remove_link (links.rs 77-84): the first link of the tag.
remove_link(cfg, tag) ==
  LET at == {i \in 1..Len(cfg) : cfg[i].tag = tag}
  IN IF at = {} THEN [removed |-> FALSE, links |-> cfg]
     ELSE [removed |-> TRUE,
           links |-> SubSeq(cfg, 1, MinOf(at) - 1)
                       \o SubSeq(cfg, MinOf(at) + 1, Len(cfg))]

\* LinkConfig::save (links.rs 49-52), fs::write ending as outcome.
LinkConfig_save(cfg, outcome) ==
  CASE outcome = "ok" -> [state |-> "present", links |-> cfg]
    [] outcome = "write_failed" -> [state |-> "garbage", links |-> <<>>]
    [] OTHER -> linkFile

\* AliasConfig::load (aliases.rs 16-31); aliases is a map from tag to URL.
AliasConfig_load ==
  IF aliasFile.state = "present" THEN aliasFile.aliases ELSE <<>>

\* AliasConfig::add_alias (aliases.rs 38-40): HashMap::insert.
add_alias(cfg, tag, url) ==
  [t \in DOMAIN cfg \cup {tag} |-> IF t = tag THEN url ELSE cfg[t]]

\* AliasConfig::resolve (aliases.rs 42-44).
resolve(cfg, tag) == IF tag \in DOMAIN cfg THEN Some(cfg[tag]) ELSE None

\* AliasConfig::remove_alias (aliases.rs 46-48).
remove_alias(cfg, tag) ==
  [removed |-> tag \in DOMAIN cfg,
   aliases |-> [t \in DOMAIN cfg \ {tag} |-> cfg[t]]]

\* AliasConfig::save (aliases.rs 33-36).
AliasConfig_save(cfg, outcome) ==
  CASE outcome = "ok" -> [state |-> "present", aliases |-> cfg]
    [] outcome = "write_failed" -> [state |-> "garbage", aliases |-> <<>>]
    [] OTHER -> aliasFile

\* The orders in which HashMap::values may yield the URLs of a map.
ValueOrders(cfg) ==
  LET n == Cardinality(DOMAIN cfg)
  IN {[i \in 1..n |-> cfg[order[i]]] :
        order \in {o \in [1..n -> DOMAIN cfg] :
                     \A i, j \in 1..n : o[i] = o[j] => i = j}}

\* ---- launcher -----------------------------------------------------------
UpperCase == <<"A","B","C","D","E","F","G","H","I","J","K","L","M","N","O","P","Q","R","S","T","U","V","W","X","Y","Z">>
LowerCase == <<"a","b","c","d","e","f","g","h","i","j","k","l","m","n","o","p","q","r","s","t","u","v","w","x","y","z">>

\* str::to_lowercase, on ASCII text.
ToLower(s) ==
  [i \in 1..Len(s) |->
     IF \E k \in 1..Len(UpperCase) : UpperCase[k] = s[i]
     THEN LowerCase[CHOOSE k \in 1..Len(UpperCase) : UpperCase[k] = s[i]]
     ELSE s[i]]

\* str::contains
Contains(s, pat) ==
  \E i \in 0..(Len(s) - Len(pat)) : SubSeq(s, i + 1, i + Len(pat)) = pat

\* Path::file_name: the last component of a path of the modelled machine.
FileName(path) ==
  Drop(path, LastIndexOf(path, IF target_os = "windows" THEN {"\\", "/"} ELSE {"/"}))

\* Mutant of get_private_flags: the name is matched as it is written.
get_private_flags_case_sensitive(browser_path) ==
  LET exe == FileName(browser_path)
  IN IF Contains(exe, <<"f","i","r","e","f","o","x">>) THEN <<"-private-window">>
     ELSE IF Contains(exe, <<"m","s","e","d","g","e">>) THEN <<"--inprivate">>
     ELSE IF \/ Contains(exe, <<"b","r","a","v","e">>)
             \/ Contains(exe, <<"c","h","r","o","m","e">>)
             \/ Contains(exe, <<"c","h","r","o","m","i","u","m">>)
             \/ Contains(exe, <<"v","i","v","a","l","d","i">>)
     THEN <<"--incognito">>
     ELSE <<>>

\* get_private_flags (links.rs 101-122).
get_private_flags(browser_path) ==
  LET exe_lower == ToLower(FileName(browser_path))
  IN IF Contains(exe_lower, <<"f","i","r","e","f","o","x">>) THEN <<"-private-window">>
     ELSE IF Contains(exe_lower, <<"m","s","e","d","g","e">>) THEN <<"--inprivate">>
     ELSE IF \/ Contains(exe_lower, <<"b","r","a","v","e">>)
             \/ Contains(exe_lower, <<"c","h","r","o","m","e">>)
             \/ Contains(exe_lower, <<"c","h","r","o","m","i","u","m">>)
             \/ Contains(exe_lower, <<"v","i","v","a","l","d","i">>)
     THEN <<"--incognito">>
     ELSE IF Contains(exe_lower, <<"s","a","f","a","r","i">>) THEN <<>>
     ELSE <<>>

\* Command::spawn succeeds for a file the machine can execute.
CanSpawn(path) == VersionRun(path).spawned

\* launch_urls_simultaneously (links.rs 150-174): what is printed and
\* spawned for a browser, the URLs and a mode ("Normal" or "Private").
launch_urls_simultaneously(browser, urls, mode) ==
  LET flags == IF mode = "Private" THEN get_private_flags(browser.path) ELSE <<>>
  IN [mainLog |-> mainLog \o <<"print_launching">>
                    \o (IF mode = "Private" /\ flags = <<>>
                        THEN <<"print_private_flags_unknown">> ELSE <<>>)
                    \o (IF CanSpawn(browser.path)
                        THEN <<>> ELSE <<"print_failed_to_launch">>),
      spawned |-> IF CanSpawn(browser.path)
                  THEN Append(spawned, [program |-> browser.path,
                                        args |-> flags \o urls])
                  ELSE spawned]

\* launch_link (links.rs 126-147): the same for one URL.
launch_link(browser, url, mode) ==
  launch_urls_simultaneously(browser, <<url>>, mode)

\* `if incognito { LaunchMode::Private } else { LaunchMode::Normal }`
LaunchMode(incognito) == IF incognito THEN "Private" ELSE "Normal"

\* ---- main ---------------------------------------------------------------
runVars == <<configFile, reportFiles, pc, runs, detected, selected, result,
             choiceIn, pathIn, log>>

\* Mutant of get_browser_or_exit: without a browser, a default one is used.
get_browser_or_default(browser_result) ==
  IF IsSome(browser_result)
  THEN [exit |-> FALSE, browser |-> browser_result]
  ELSE [exit |-> FALSE, browser |-> Some(Browser(CustomBrowserName, LxChrome, None))]

\* get_browser_or_exit (main.rs 159-168): the browser, or exit(1).
get_browser_or_exit(browser_result) ==
  IF IsSome(browser_result)
  THEN [exit |-> FALSE, browser |-> browser_result]
  ELSE [exit |-> TRUE, browser |-> None]

\* main.rs 70-78: the first thing main does is to call detect::run.
MainDetect ==
  /\ mainPc = "start"
  /\ mainPc' = "detect"
  /\ CallRun
  /\ UNCHANGED <<command, linkFile, aliasFile, spawned, mainLog, exitCode>>

\* detect::run has returned to line 78 and main matches the command.
AtMatch == mainPc = "detect" /\ pc = "done"

\* The process ends with a status.
Exit(code) == mainPc' = "exit" /\ exitCode' = Some(code)

\* main.rs 162-166: no browser, the process exits with status 1.
NoBrowserExit ==
  /\ mainLog' = Append(mainLog, "print_no_browser")
  /\ spawned' = spawned
  /\ Exit(1)

\* main.rs 82-94.
Launch ==
  /\ AtMatch
  /\ \E target \in Targets, incognito \in BOOLEAN :
       /\ command' = Cmd("Launch", target, "", incognito)
       /\ LET got == get_browser_or_exit(result)
          IN IF got.exit THEN NoBrowserExit
             ELSE LET alias == resolve(AliasConfig_load, target)
                      link == get_url(LinkConfig_load, target)
                      url == IF IsSome(alias) THEN Unwrap(alias)
                             ELSE IF IsSome(link) THEN Unwrap(link)
                             ELSE target
                      out == launch_link(Unwrap(got.browser), url,
                                         LaunchMode(incognito))
                  IN /\ mainLog' = out.mainLog
                     /\ spawned' = out.spawned
                     /\ Exit(0)
  /\ UNCHANGED <<env, callVars, runVars, linkFile, aliasFile>>

\* main.rs 97-102; an error of save ends main with an error status.
AddLink ==
  /\ AtMatch
  /\ \E tag \in Tags, url \in Urls, outcome \in WriteOutcomes :
       /\ command' = Cmd("AddLink", tag, url, FALSE)
       /\ linkFile' = LinkConfig_save(add_link(LinkConfig_load, tag, url), outcome)
       /\ IF outcome = "ok"
          THEN mainLog' = Append(mainLog, "print_link_saved") /\ Exit(0)
          ELSE mainLog' = mainLog /\ Exit(1)
  /\ UNCHANGED <<env, callVars, runVars, aliasFile, spawned>>

\* main.rs 103-108.
AddAlias ==
  /\ AtMatch
  /\ \E tag \in Tags, url \in Urls, outcome \in WriteOutcomes :
       /\ command' = Cmd("AddAlias", tag, url, FALSE)
       /\ aliasFile' = AliasConfig_save(add_alias(AliasConfig_load, tag, url), outcome)
       /\ IF outcome = "ok"
          THEN mainLog' = Append(mainLog, "print_alias_saved") /\ Exit(0)
          ELSE mainLog' = mainLog /\ Exit(1)
  /\ UNCHANGED <<env, callVars, runVars, linkFile, spawned>>

\* main.rs 109-117.
RemoveLink ==
  /\ AtMatch
  /\ \E tag \in Tags, outcome \in WriteOutcomes :
       /\ command' = Cmd("RemoveLink", tag, "", FALSE)
       /\ LET r == remove_link(LinkConfig_load, tag)
          IN IF r.removed
             THEN /\ linkFile' = LinkConfig_save(r.links, outcome)
                  /\ IF outcome = "ok"
                     THEN mainLog' = Append(mainLog, "print_link_removed") /\ Exit(0)
                     ELSE mainLog' = mainLog /\ Exit(1)
             ELSE /\ linkFile' = linkFile
                  /\ mainLog' = Append(mainLog, "print_link_not_found")
                  /\ Exit(0)
  /\ UNCHANGED <<env, callVars, runVars, aliasFile, spawned>>

\* main.rs 118-126.
RemoveAlias ==
  /\ AtMatch
  /\ \E tag \in Tags, outcome \in WriteOutcomes :
       /\ command' = Cmd("RemoveAlias", tag, "", FALSE)
       /\ LET r == remove_alias(AliasConfig_load, tag)
          IN IF r.removed
             THEN /\ aliasFile' = AliasConfig_save(r.aliases, outcome)
                  /\ IF outcome = "ok"
                     THEN mainLog' = Append(mainLog, "print_alias_removed") /\ Exit(0)
                     ELSE mainLog' = mainLog /\ Exit(1)
             ELSE /\ aliasFile' = aliasFile
                  /\ mainLog' = Append(mainLog, "print_alias_not_found")
                  /\ Exit(0)
  /\ UNCHANGED <<env, callVars, runVars, linkFile, spawned>>

\* main.rs 127-130.
ListLinks ==
  /\ AtMatch
  /\ command' = Cmd("ListLinks", "", "", FALSE)
  /\ mainLog' = mainLog \o <<"print_links", "print_aliases">>
  /\ Exit(0)
  /\ UNCHANGED <<env, callVars, runVars, linkFile, aliasFile, spawned>>

\* main.rs 133-138 and LinkConfig::open_all (links.rs 86-95).
OpenAllLinks ==
  /\ AtMatch
  /\ \E incognito \in BOOLEAN :
       /\ command' = Cmd("OpenAllLinks", "", "", incognito)
       /\ LET got == get_browser_or_exit(result)
              cfg == LinkConfig_load
              out == launch_urls_simultaneously(Unwrap(got.browser),
                       [i \in 1..Len(cfg) |-> cfg[i].url], LaunchMode(incognito))
          IN IF got.exit THEN NoBrowserExit
             ELSE IF cfg = <<>>
             THEN /\ mainLog' = Append(mainLog, "print_no_links")
                  /\ spawned' = spawned
                  /\ Exit(0)
             ELSE /\ mainLog' = out.mainLog
                  /\ spawned' = out.spawned
                  /\ Exit(0)
  /\ UNCHANGED <<env, callVars, runVars, linkFile, aliasFile>>

\* main.rs 139-144 and AliasConfig::open_all (aliases.rs 61-69).
OpenAllAliases ==
  /\ AtMatch
  /\ \E incognito \in BOOLEAN :
       /\ command' = Cmd("OpenAllAliases", "", "", incognito)
       /\ LET got == get_browser_or_exit(result)
              cfg == AliasConfig_load
          IN IF got.exit THEN NoBrowserExit
             ELSE IF DOMAIN cfg = {}
             THEN /\ mainLog' = Append(mainLog, "print_no_aliases")
                  /\ spawned' = spawned
                  /\ Exit(0)
             ELSE \E urls \in ValueOrders(cfg) :
                    LET out == launch_urls_simultaneously(Unwrap(got.browser),
                                 urls, LaunchMode(incognito))
                    IN /\ mainLog' = out.mainLog
                       /\ spawned' = out.spawned
                       /\ Exit(0)
  /\ UNCHANGED <<env, callVars, runVars, linkFile, aliasFile>>

\* main.rs 147-150: the Detect command calls detect::run once more.
DetectCommand ==
  /\ AtMatch
  /\ command' = Cmd("Detect", "", "", FALSE)
  /\ mainPc' = "redetect"
  /\ CallRun
  /\ UNCHANGED <<linkFile, aliasFile, spawned, mainLog, exitCode>>

\* main.rs 150, 156: the second call has returned, main returns Ok(()).
DetectReturn ==
  /\ mainPc = "redetect"
  /\ pc = "done"
  /\ Exit(0)
  /\ UNCHANGED <<env, callVars, runVars, command, linkFile, aliasFile, spawned, mainLog>>

\* main.rs 151-153.
Help ==
  /\ AtMatch
  /\ command' = Cmd("Help", "", "", FALSE)
  /\ mainLog' = Append(mainLog, "print_help")
  /\ Exit(0)
  /\ UNCHANGED <<env, callVars, runVars, linkFile, aliasFile, spawned>>

NextMain ==
  \/ MainDetect
  \/ LoadSaved
  \/ Detect
  \/ WriteOutputs
  \/ SelectNone
  \/ SelectOnly
  \/ Choose
  \/ ManualSelect
  \/ SaveAndReturn
  \/ Launch
  \/ AddLink
  \/ AddAlias
  \/ RemoveLink
  \/ RemoveAlias
  \/ ListLinks
  \/ OpenAllLinks
  \/ OpenAllAliases
  \/ DetectCommand
  \/ DetectReturn
  \/ Help

\* ---- the initial states of a whole invocation ---------------------------
\* Browsers an earlier invocation saved, with the machine they are on.
SavedBrowsers ==
  {[os |-> "linux", path |-> p] :
     p \in {LxFirefox, LxVivaldi, LxBrave, LxChrome, LxOptChromium, LxFoo}}
  \cup {[os |-> "windows", path |-> p] : p \in {WinEdge, WinUpperFirefox, WinFoo}}
  \cup {[os |-> "macos", path |-> p] : p \in {MacChrome, MacSafari}}

LinkFilesBefore ==
  { [state |-> "absent", links |-> <<>>],
    [state |-> "garbage", links |-> <<>>],
    [state |-> "present",
     links |-> <<Link("docs", "https://a.example"),
                 Link("news", "https://b.example")>>] }

AliasFilesBefore ==
  { [state |-> "absent", aliases |-> <<>>],
    [state |-> "present",
     aliases |-> ("docs" :> "https://b.example") @@ ("blog" :> "https://a.example")] }

\* A machine with a valid saved browser, or a linux machine without a
\* saved browser.
InitInvocation ==
  \/ \E saved \in SavedBrowsers :
       /\ target_os = saved.os
       /\ files = {saved.path}
       /\ configFile = [state |-> "present",
                        text |-> ConfigToJson(Browser(CustomBrowserName, saved.path, None))]
       /\ linkFile \in LinkFilesBefore
       /\ aliasFile \in AliasFilesBefore
  \/ /\ target_os = "linux"
     /\ files \in {{}, {LxFoo}, {LxChrome}, {LxChrome, LxLocalChrome}}
     /\ configFile = [state |-> "absent", text |-> <<>>]
     /\ linkFile \in {ls \in LinkFilesBefore : ls.state = "present"}
     /\ aliasFile \in {as \in AliasFilesBefore : as.state = "present"}

InitMain ==
  /\ InitInvocation
  /\ links = NoLinks
  /\ PATH = <<>>
  /\ registry = <<>>
  /\ reportFiles = [json |-> None, txt |-> None]
  /\ pc = "idle"
  /\ runs = 0
  /\ detected = <<>>
  /\ selected = None
  /\ result = None
  /\ choiceIn = None
  /\ pathIn = None
  /\ log = <<>>
  /\ mainPc = "start"
  /\ command = NoCommand
  /\ spawned = <<>>
  /\ mainLog = <<>>
  /\ exitCode = None
  /\ NoCalls

SpecMain == InitMain /\ [][NextMain]_vars

\* ---- calls on a LinkConfig in memory -----------------------------------
MaxLinks == 3
MaxCalls == 3

\* config.add_link(tag, url)
CallAddLink ==
  /\ calls < MaxCalls
  /\ \E tag \in LinkTags, url \in Urls :
       /\ link_config' = add_link(link_config, tag, url)
       /\ expected_url' = [expected_url EXCEPT ![tag] = Some(url)]
       /\ last_call' = [op |-> "add_link", tag |-> tag, url |-> url,
                        before |-> link_config, removed |-> FALSE]
  /\ calls' = calls + 1
  /\ UNCHANGED <<runVars, mainVars, env>>

\* config.remove_link(tag)
CallRemoveLink ==
  /\ calls < MaxCalls
  /\ \E tag \in LinkTags :
       /\ link_config' = remove_link(link_config, tag).links
       /\ expected_url' = [expected_url EXCEPT ![tag] = None]
       /\ last_call' = [op |-> "remove_link", tag |-> tag, url |-> "",
                        before |-> link_config,
                        removed |-> remove_link(link_config, tag).removed]
  /\ calls' = calls + 1
  /\ UNCHANGED <<runVars, mainVars, env>>

NextLinks ==
  \/ CallAddLink
  \/ CallRemoveLink

\* The LinkConfigs of at most MaxLinks links whose tags are pairwise
\* distinct.
DistinctConfigs ==
  LET all == UNION {[1..n -> {Link(t, u) : t \in LinkTags, u \in Urls}] : n \in 0..MaxLinks}
  IN {c \in all : \A i, j \in 1..Len(c) : c[i].tag = c[j].tag => i = j}

\* A LinkConfig with pairwise distinct tags; nothing else is going on.
InitLinks ==
  /\ link_config \in DistinctConfigs
  /\ expected_url = [t \in LinkTags |-> get_url(link_config, t)]
  /\ last_call = NoCall
  /\ calls = 0
  /\ target_os = "linux"
  /\ files = {}
  /\ links = NoLinks
  /\ PATH = <<>>
  /\ registry = <<>>
  /\ configFile = [state |-> "absent", text |-> <<>>]
  /\ reportFiles = [json |-> None, txt |-> None]
  /\ pc = "idle"
  /\ runs = 0
  /\ detected = <<>>
  /\ selected = None
  /\ result = None
  /\ choiceIn = None
  /\ pathIn = None
  /\ log = <<>>
  /\ mainPc = "lib"
  /\ command = NoCommand
  /\ linkFile = [state |-> "absent", links |-> <<>>]
  /\ aliasFile = [state |-> "absent", aliases |-> <<>>]
  /\ spawned = <<>>
  /\ mainLog = <<>>
  /\ exitCode = None

SpecLinks == InitLinks /\ [][NextLinks]_vars

(***************************************************************************)
(* Properties.                                                            *)
(***************************************************************************)
\* The event e is in the log of the current call of run().
Logged(e) == \E i \in 1..Len(log) : log[i] = e

\* The positions of the characters of a sequence: <<1, ..., Len(s)>>.
Indices(s) == [i \in 1..Len(s) |-> i]

\* C1: the list a fresh detection returns holds no two entries with the
\* same path, whatever the PATH, install-directory and registry probes
\* emitted.
C1_NoTwoEntriesShareAPath ==
  \A i, j \in 1..Len(detected) :
    detected[i].path = detected[j].path => i = j

\* C1 witness: the PATH or install-directory probe and the registry probe
\* both emitted the same executable, and detection has returned.
C1_Witness ==
  /\ pc = "report"
  /\ target_os = "windows"
  /\ \E i \in 1..Len(ProbeKnown.found), j \in 1..Len(probe_registry.found) :
       ProbeKnown.found[i].path = probe_registry.found[j].path

\* C2: two logical browsers that resolve to one canonical path, one found
\* on the search path and the other by an install-directory probe, give
\* exactly one entry for that canonical path.
C2_OneEntryPerCanonicalPath ==
  pc = "report" =>
    \A a, b \in 1..Len(known_browsers) :
      LET onPath == Which(get_executable_name(known_browsers[a][2]))
          installed == common_paths(get_executable_name(known_browsers[b][2]))
      IN \A c \in 1..Len(installed) :
           ( /\ a # b
             /\ IsSome(onPath)
             /\ PathExists(installed[c])
             /\ Canonical(Unwrap(onPath)) = Canonical(installed[c]) )
           => Cardinality({k \in 1..Len(detected) :
                             Canonical(detected[k].path) = Canonical(installed[c])}) = 1

\* C3: deduplication returns exactly the first occurrences of each path of
\* the concatenated probe output, in emission order: an entry is dropped
\* if and only if an earlier entry has the same path, whatever the names
\* and versions.
C3_FirstOccurrencesInOrder ==
  pc = "report" =>
    LET emitted == ProbeAll.found
        first == SelectSeq(Indices(emitted),
                   LAMBDA i : \A j \in 1..(i - 1) : emitted[j].path # emitted[i].path)
    IN detected = [k \in 1..Len(first) |-> emitted[first[k]]]

\* C3 witness: a later entry with the path of an earlier one but another
\* name was dropped, and two paths of one logical browser were both kept.
C3_Witness ==
  /\ pc = "report"
  /\ \E i, j \in 1..Len(ProbeAll.found) :
       /\ i < j
       /\ ProbeAll.found[i].path = ProbeAll.found[j].path
       /\ ProbeAll.found[i].name # ProbeAll.found[j].name
  /\ \E i, j \in 1..Len(detected) :
       /\ i # j
       /\ detected[i].name = detected[j].name
       /\ detected[i].path # detected[j].path

\* What the config file must hold for a saved browser to be reused: the
\* file exists and can be read, its text parses, and the path it names
\* exists on disk.
SavedIsValid ==
  /\ configFile.state = "present"
  /\ IsSome(ConfigFromJson(configFile.text))
  /\ PathExists(Unwrap(ConfigFromJson(configFile.text)).path)

\* C4: with a valid saved browser in the config file, run() returns that
\* browser at once: no probe, no version subprocess, no prompt, no read of
\* input, and no write to the config file or the report files.
C4_SavedBrowserSkipsAllProbing ==
  [][ (pc = "load" /\ SavedIsValid) =>
        /\ pc' = "done"
        /\ result' = ConfigFromJson(configFile.text)
        /\ log' = <<"create_config_dir", "read_config">>
        /\ configFile' = configFile
        /\ reportFiles' = reportFiles
        /\ detected' = <<>>
        /\ choiceIn' = None
        /\ pathIn' = None ]_vars

\* C4 witness: a call of run() has returned a saved browser.
C4_Witness ==
  /\ pc = "done"
  /\ IsSome(result)
  /\ log = <<"create_config_dir", "read_config">>

\* C5: after save_browser(b) succeeded, load_saved_browser on the same
\* config file returns a browser equal to b in name, path and version,
\* provided b.path exists on disk.
C5_SaveThenLoadReturnsTheBrowser ==
  (pc = "done" /\ Logged("print_saved") /\ PathExists(Unwrap(selected).path))
    => load_saved_browser = selected

\* C5 witness: a browser whose path holds backslashes and a blank and whose
\* version holds quotes has been saved.
C5_Witness ==
  /\ pc = "done"
  /\ Logged("print_saved")
  /\ Unwrap(selected).path = WinPfChrome
  /\ IsSome(Unwrap(selected).version)
  /\ IndexOf(Unwrap(Unwrap(selected).version), "\"") # 0

\* C6: load_saved_browser returns a browser only for a config file that
\* exists, can be read, parses and names an existing path; in every other
\* case it returns none, and run() goes on to a fresh detection.
C6_LoadFailsSoftToFreshDetection ==
  [][ pc = "load" =>
        /\ (IsSome(load_saved_browser) <=> SavedIsValid)
        /\ (~SavedIsValid =>
              /\ pc' = "detect"
              /\ result' = None
              /\ configFile' = configFile) ]_vars

\* C6 witness: the config file parses but names a path that no longer
\* exists, and run() has gone on to detect.
C6_Witness ==
  /\ pc = "detect"
  /\ configFile.state = "present"
  /\ IsSome(ConfigFromJson(configFile.text))
  /\ ~PathExists(Unwrap(ConfigFromJson(configFile.text)).path)

\* C7: when a fresh detection yields no candidate, the selection step
\* enters the manual-entry flow, and the indexed-choice prompt is never
\* shown, neither by that step nor by the manual entry that follows.
C7_NoCandidateGoesToManualEntry ==
  [][ /\ (pc = "select" /\ detected = <<>>) =>
            /\ pc' = "manual"
            /\ log' = Append(log, "print_no_browsers")
            /\ choiceIn' = None
      /\ (pc = "manual" /\ Logged("print_no_browsers")) =>
            /\ SubSeq(log', 1, Len(log) + 1) = Append(log, "prompt_path")
            /\ ~Logged("prompt_choice")'
            /\ choiceIn' = None ]_vars

\* C7 witness: nothing was detected and the path prompt has been shown.
C7_Witness ==
  /\ pc = "save"
  /\ detected = <<>>
  /\ Logged("print_no_browsers")
  /\ Logged("prompt_path")

\* C8: when a fresh detection yields exactly one candidate, the selection
\* step takes that candidate and run() returns it, without a choice
\* prompt, without a path prompt and without reading a line of input.
C8_SingleCandidateIsReturnedUnprompted ==
  [][ /\ (pc = "select" /\ Len(detected) = 1) =>
            /\ pc' = "save"
            /\ selected' = Some(detected[1])
            /\ log' = Append(log, "print_auto_selected")
            /\ ~Logged("read_line")
            /\ choiceIn' = None
            /\ pathIn' = None
      /\ (pc = "save" /\ Logged("print_auto_selected")) =>
            /\ pc' = "done"
            /\ result' = selected
            /\ ~Logged("read_line")'
            /\ ~Logged("prompt_choice")'
            /\ ~Logged("prompt_path")'
            /\ choiceIn' = None
            /\ pathIn' = None ]_vars

\* C8 witness: the only browser detected has been returned.
C8_Witness ==
  /\ pc = "done"
  /\ Logged("print_auto_selected")
  /\ IsSome(result)
  /\ choiceIn = None
  /\ pathIn = None

\* The integer a text writes in decimal, with an optional sign; none for
\* any other text.
DecimalOf(s) ==
  LET signed == s # <<>> /\ s[1] \in {"+", "-"}
      body == IF signed THEN Tail(s) ELSE s
      value[i \in 0..Len(body)] ==
        IF i = 0 THEN 0 ELSE 10 * value[i - 1] + DigitValue(body[i])
  IN IF body # <<>> /\ \A i \in 1..Len(body) : body[i] \in Digits
     THEN Some(IF s[1] = "-" THEN 0 - value[Len(body)] ELSE value[Len(body)])
     ELSE None

\* The manual-entry flow runs or has run.
InManualEntry == pc = "manual" \/ Logged("prompt_path")

\* The selection is none of the listed candidates.
NoCandidateSelected ==
  selected = None \/ \A i \in 1..Len(detected) : detected[i] # Unwrap(selected)

\* C9: with N >= 2 candidates and a line s of input, trimmed: s = "m" in
\* either case runs manual entry; else s an integer k with 1 <= k <= N
\* selects the k-th candidate; else a diagnostic is printed and manual
\* entry runs.  No other candidate is ever selected.
C9_ChoiceLineIsReadAsSpecified ==
  (IsSome(choiceIn) /\ Len(detected) >= 2) =>
    LET s == Trim(Unwrap(choiceIn))
        k == DecimalOf(s)
    IN IF s \in {<<"m">>, <<"M">>}
       THEN /\ InManualEntry
            /\ NoCandidateSelected
            /\ ~Logged("print_invalid_choice")
            /\ ~Logged("print_selected")
       ELSE IF IsSome(k) /\ 1 <= Unwrap(k) /\ Unwrap(k) <= Len(detected)
       THEN /\ ~InManualEntry
            /\ selected = Some(detected[Unwrap(k)])
            /\ (pc = "done" => result = Some(detected[Unwrap(k)]))
            /\ ~Logged("print_invalid_choice")
       ELSE /\ InManualEntry
            /\ NoCandidateSelected
            /\ Logged("print_invalid_choice")
            /\ ~Logged("print_selected")

\* C9 witness: "3" was typed with three candidates listed, and the third
\* was returned.
C9_Witness ==
  /\ pc = "done"
  /\ choiceIn = Some(<<"3","\n">>)
  /\ Len(detected) = 3
  /\ result = Some(detected[3])

\* The record manual_select builds for the line typed at the path prompt.
EnteredBrowser ==
  Browser(CustomBrowserName, Trim(Unwrap(pathIn)),
          get_version(Trim(Unwrap(pathIn))))

\* The scenario of C10 has run to its end: nothing saved, nothing
\* detected, and the user typed a path that exists.
ManualScenarioDone ==
  /\ pc = "done"
  /\ Logged("print_no_browsers")
  /\ IsSome(pathIn)
  /\ PathExists(Trim(Unwrap(pathIn)))

\* The config file holds the record.
Persisted(b) ==
  /\ configFile.state = "present"
  /\ ConfigFromJson(configFile.text) = Some(b)

\* C10 as stated: the scenario returns the entered browser, and the config
\* file then holds that record.
C10_ManualEntryIsReturnedAndPersisted ==
  ManualScenarioDone =>
    /\ result = Some(EnteredBrowser)
    /\ Persisted(EnteredBrowser)

\* C10: the scenario returns the entered browser and save_browser is
\* called with it; the config file then holds that record when the write
\* succeeded, and a failed write is reported while the record is returned
\* all the same.
C10_ManualEntryIsReturnedAndSaveAttempted ==
  ManualScenarioDone =>
    /\ result = Some(EnteredBrowser)
    /\ Logged("write_config")
    /\ (Logged("print_saved") => Persisted(EnteredBrowser))
    /\ (~Logged("print_saved") => Logged("print_could_not_save"))

\* C10 witness: the scenario ended with a version probed and the record
\* written.
C10_Witness ==
  /\ ManualScenarioDone
  /\ IsSome(EnteredBrowser.version)
  /\ Logged("print_saved")
  /\ Persisted(EnteredBrowser)

\* C11: a path that does not exist, typed at the manual-entry prompt, is
\* reported and gives no browser; and once run() has returned after that
\* failure, the invocation starts no further detection and no further
\* prompt, whatever the command (Detect included).
C11_InvalidPathEndsDiscovery ==
  [][ /\ (pc = "manual" /\ IsSome(pathIn') /\ ~PathExists(Trim(Unwrap(pathIn')))) =>
            /\ selected' = None
            /\ Logged("print_invalid_path")'
      /\ (pc = "save" /\ Logged("print_invalid_path")) =>
            /\ pc' = "done"
            /\ result' = None
            /\ configFile' = configFile
      /\ (pc = "done" /\ Logged("print_invalid_path")) =>
            /\ pc' = "done"
            /\ log' = log ]_vars

\* The config file holds exactly what save_browser writes for the browser.
HoldsRecord(file, b) == file = [state |-> "present", text |-> ConfigToJson(b)]

EveryHitIsDetected ==
  \A b \in 1..Len(known_browsers) :
    LET exec_name == get_executable_name(known_browsers[b][2])
        hit == Which(exec_name)
        candidates == common_paths(exec_name)
    IN /\ IsSome(hit) => HasPath(detected, Unwrap(hit))
       /\ \A c \in 1..Len(candidates) :
            PathExists(candidates[c]) => HasPath(detected, candidates[c])

\* C13: a version probe that cannot execute its path gives an absent
\* version and nothing else: the candidate is emitted without a version,
\* the candidates after it are probed and emitted, and detection returns.
C13_FailedProbeOnlyLosesTheVersion ==
  pc = "report" =>
    /\ \A i \in 1..Len(detected) :
         ~VersionRun(detected[i].path).spawned => detected[i].version = None
    /\ EveryHitIsDetected

\* C13 witness: detection returned a browser whose probe could not be
\* executed, followed by one whose probe gave a version.
C13_Witness ==
  /\ pc = "report"
  /\ \E i, j \in 1..Len(detected) :
       /\ i < j
       /\ ~VersionRun(detected[i].path).spawned
       /\ detected[i].version = None
       /\ IsSome(detected[j].version)

\* C14: the version of a detected browser is present only when the
\* --version subprocess was spawned, exited with status zero and wrote
\* some output, and is then the first line of the output, trimmed; in
\* every other case the version is absent.
C14_VersionOnlyFromCleanNonEmptyOutput ==
  pc = "report" =>
    \A i \in 1..Len(detected) :
      LET out == VersionRun(detected[i].path)
      IN IF out.spawned /\ out.status = 0 /\ out.stdout # <<>>
         THEN detected[i].version = Some(Trim(FirstLine(out.stdout)))
         ELSE detected[i].version = None

\* C15: when the write of the config file fails in save_browser, the
\* failure is printed and nothing else changes: run() returns, and it
\* returns the selected browser, as it does when the write succeeds.
C15_SaveFailureStillReturnsTheBrowser ==
  [][ (pc = "save" /\ IsSome(selected) /\ pc' # "killed") =>
        /\ pc' = "done"
        /\ result' = selected
        /\ Logged("write_config")'
        /\ ~Logged("print_saved")' => Logged("print_could_not_save")' ]_vars

\* C15 witness: run() returned a browser that could not be saved.
C15_Witness ==
  /\ pc = "done"
  /\ Logged("print_could_not_save")
  /\ IsSome(result)
  /\ result = selected
  /\ ~HoldsRecord(configFile, Unwrap(result))

\* C16: when the process is stopped at any point inside save_browser, the
\* config file afterwards holds the whole of what it held before or the
\* whole new record, never something in between.
C16_InterruptedSaveLeavesOldOrNewConfig ==
  [][ (pc = "save" /\ pc' = "killed") =>
        \/ configFile' = configFile
        \/ HoldsRecord(configFile', Unwrap(selected)) ]_vars

\* C17: a fresh detection always reaches the selection step in the end,
\* also when a candidate's --version subprocess never exits.
C17_FreshDetectionReachesSelection == (pc = "detect") ~> (pc = "select")

Probes == {"which", "stat", "spawn", "registry"}
Prompts == {"prompt_choice", "prompt_path"}

\* The positions of the log that hold one of the events.
At(events) == {i \in 1..Len(log) : log[i] \in events}

\* The probe at position j of the log is manual_select's look at the path
\* that was just typed: its existence check or its version probe.
ChecksTypedPath(j) ==
  \/ /\ j > 2
     /\ log[j] = "stat"
     /\ log[j - 1] = "read_line"
     /\ log[j - 2] = "prompt_path"
  \/ /\ j > 4
     /\ log[j] = "spawn"
     /\ log[j - 1] = "print_browser_added"
     /\ log[j - 2] = "stat"
     /\ log[j - 3] = "read_line"
     /\ log[j - 4] = "prompt_path"

\* C18 as stated: in a run of detect::run every probe and version check
\* comes before the first prompt, none comes after a prompt, and the
\* config file is written only after every prompt was answered.
C18_NoProbeAfterAPrompt ==
  /\ \A i \in At(Prompts), j \in At(Probes) : j < i
  /\ \A i \in At(Prompts) : i < Len(log) /\ log[i + 1] = "read_line"
  /\ \A i \in At({"read_line"}), j \in At({"write_config"}) : i < j

\* C18: in a run of detect::run every probe and version check of the
\* detection and the writing of the reports come before the first prompt;
\* after a prompt the only probes are the existence check and the version
\* probe of the path typed at the manual-entry prompt; every prompt is
\* followed at once by the read of its answer; and the config file is
\* written only after every prompt was answered.
C18_DetectionEndsBeforeThePrompts ==
  /\ \A i \in At(Prompts), j \in At(Probes) : j < i \/ ChecksTypedPath(j)
  /\ \A i \in At(Prompts), j \in At({"write_report"}) : j < i
  /\ \A i \in At(Prompts) : i < Len(log) /\ log[i + 1] = "read_line"
  /\ \A i \in At({"read_line"}), j \in At({"write_config"}) : i < j

\* C18 witness: a run prompted for a choice and then for a path, probed
\* the typed path and wrote the config file.
C18_Witness ==
  /\ pc = "done"
  /\ Logged("prompt_choice")
  /\ Logged("prompt_path")
  /\ Logged("print_browser_added")
  /\ Logged("write_config")
  /\ \E i \in At(Prompts), j \in At(Probes) : i < j

NeedsBrowser == {"Launch", "OpenAllLinks", "OpenAllAliases"}

\* What main prints when a command without a browser did its own work.
OwnOutput ==
  {"print_link_saved", "print_alias_saved", "print_link_removed",
   "print_link_not_found", "print_alias_removed", "print_alias_not_found",
   "print_aliases", "print_help"}

\* C19: when detect::run returned None to main, Launch, OpenAllLinks and
\* OpenAllAliases spawn no process, report the missing browser and end
\* the program with status 1; every other command goes on as it does with
\* a browser: it reports no missing browser and either prints its own
\* output and ends with status 0, or ends with status 1 because its own
\* save failed, or (Detect) calls detect::run again.
C19_NoBrowserBlocksOnlyTheLaunchingCommands ==
  [][ (AtMatch /\ result = None) =>
        IF command'.name \in NeedsBrowser
        THEN /\ spawned' = <<>>
             /\ mainLog' = Append(mainLog, "print_no_browser")
             /\ mainPc' = "exit"
             /\ exitCode' = Some(1)
        ELSE /\ spawned' = <<>>
             /\ \A i \in 1..Len(mainLog') : mainLog'[i] # "print_no_browser"
             /\ \/ /\ mainPc' = "exit"
                   /\ exitCode' = Some(0)
                   /\ Len(mainLog') > Len(mainLog)
                   /\ mainLog'[Len(mainLog')] \in OwnOutput
                \/ /\ mainPc' = "exit"
                   /\ exitCode' = Some(1)
                   /\ command'.name \in {"AddLink", "AddAlias", "RemoveLink", "RemoveAlias"}
                   /\ mainLog' = mainLog
                \/ /\ command'.name = "Detect"
                   /\ mainPc' = "redetect"
                   /\ pc' = "load"
                \/ UNCHANGED vars ]_vars

\* C19 witness: a Launch without a browser has ended the program with
\* status 1 and nothing spawned.
C19_Witness ==
  /\ mainPc = "exit"
  /\ command.name = "Launch"
  /\ result = None
  /\ exitCode = Some(1)
  /\ spawned = <<>>
  /\ mainLog # <<>>
  /\ mainLog[Len(mainLog)] = "print_no_browser"

PrivateFlags == {"-private-window", "--inprivate", "--incognito"}

\* The URLs a finished launching command was to open, in each order the
\* program may pass them.
UrlsToOpen ==
  CASE command.name = "Launch" ->
         LET alias == resolve(AliasConfig_load, command.tag)
             link == get_url(LinkConfig_load, command.tag)
         IN {<<IF IsSome(alias) THEN Unwrap(alias)
               ELSE IF IsSome(link) THEN Unwrap(link)
               ELSE command.tag>>}
    [] command.name = "OpenAllLinks" ->
         {[i \in 1..Len(LinkConfig_load) |-> LinkConfig_load[i].url]}
    [] command.name = "OpenAllAliases" -> ValueOrders(AliasConfig_load)
    [] OTHER -> {}

\* The lower-cased basename of the selected browser contains the text.
BasenameHas(text) == Contains(ToLower(FileName(Unwrap(result).path)), text)

\* C20: a launching command that ended with a browser spawned at most one
\* process, the selected browser. In Private mode its arguments are the
\* private flag of the browser followed by the URLs: -private-window when
\* the lower-cased basename contains firefox, --inprivate when it contains
\* msedge, --incognito when it contains brave, chrome, chromium or
\* vivaldi; for any other basename a warning is printed and the arguments
\* are the URLs alone, as in Normal mode. In Normal mode the arguments are
\* the URLs alone.
C20_PrivateFlagFollowsTheBasename ==
  (mainPc = "exit" /\ command.name \in NeedsBrowser /\ IsSome(result)) =>
    /\ Len(spawned) <= 1
    /\ \A k \in 1..Len(spawned) :
         LET args == spawned[k].args
             urls == SelectSeq(args, LAMBDA a : a \notin PrivateFlags)
             known == \/ BasenameHas(<<"f","i","r","e","f","o","x">>)
                      \/ BasenameHas(<<"m","s","e","d","g","e">>)
                      \/ BasenameHas(<<"b","r","a","v","e">>)
                      \/ BasenameHas(<<"c","h","r","o","m","e">>)
                      \/ BasenameHas(<<"c","h","r","o","m","i","u","m">>)
                      \/ BasenameHas(<<"v","i","v","a","l","d","i">>)
         IN /\ spawned[k].program = Unwrap(result).path
            /\ urls \in UrlsToOpen
            /\ IF command.incognito
               THEN /\ BasenameHas(<<"f","i","r","e","f","o","x">>) => args = <<"-private-window">> \o urls
                    /\ BasenameHas(<<"m","s","e","d","g","e">>) => args = <<"--inprivate">> \o urls
                    /\ ( \/ BasenameHas(<<"b","r","a","v","e">>)
                         \/ BasenameHas(<<"c","h","r","o","m","e">>)
                         \/ BasenameHas(<<"c","h","r","o","m","i","u","m">>)
                         \/ BasenameHas(<<"v","i","v","a","l","d","i">>) ) => args = <<"--incognito">> \o urls
                    /\ ~known => /\ args = urls
                                 /\ \E i \in 1..Len(mainLog) :
                                      mainLog[i] = "print_private_flags_unknown"
                    /\ known => \A i \in 1..Len(mainLog) :
                                  mainLog[i] # "print_private_flags_unknown"
               ELSE /\ args = urls
                    /\ \A i \in 1..Len(mainLog) :
                         mainLog[i] # "print_private_flags_unknown"

\* C20 witness: a private Launch with a browser whose basename is in upper
\* case (FIREFOX.EXE) spawned it with -private-window and the URL.
C20_Witness ==
  /\ mainPc = "exit"
  /\ command.name = "Launch"
  /\ command.incognito
  /\ IsSome(result)
  /\ Unwrap(result).path = WinUpperFirefox
  /\ Len(spawned) = 1
  /\ spawned[1].args[1] = "-private-window"
  /\ Len(spawned[1].args) = 2

\* C21: when the Detect command has ended, the call of detect::run it made
\* performed a fresh detection: it probed the machine, wrote the report
\* of what it detected and went through the selection step, also when the
\* config file held a valid saved browser.
C21_DetectCommandDetectsAfresh ==
  (mainPc = "exit" /\ command.name = "Detect") =>
    /\ Logged("write_report")
    /\ \/ Logged("print_no_browsers")
       \/ Logged("print_auto_selected")
       \/ Logged("prompt_choice")

\* The position of the quote that closes the quote at position 1.
ClosingQuote(val) == MinOf({i \in 2..Len(val) : val[i] = "\""})

\* The open command is a quoted path, alone or followed by arguments.
IsQuotedCommand(val) ==
  /\ Len(val) > 2
  /\ val[1] = "\""
  /\ \E i \in 3..Len(val) : val[i] = "\""
  /\ \/ ClosingQuote(val) = Len(val)
     \/ val[ClosingQuote(val) + 1] = " "

\* The text between the quotes of a quoted command.
BetweenQuotes(val) == SubSeq(val, 2, ClosingQuote(val) - 1)

\* C22: after the registry probe of a detection, for every entry whose
\* open command is a quoted path followed by arguments, the path the probe
\* extracted is the text between the quotes, also when that text holds
\* spaces; and every Browser the probe emitted has a path that exists.
C22_RegistryPathIsTheQuotedText ==
  (pc = "report" /\ target_os = "windows") =>
    /\ \A k \in 1..Len(registry) :
         IsQuotedCommand(registry[k].command) =>
           TrimQuotes(FirstWord(registry[k].command))
             = BetweenQuotes(registry[k].command)
    /\ \A k \in 1..Len(probe_registry.found) :
         PathExists(probe_registry.found[k].path)

\* C23: whichever way a run of detect::run obtained it (saved config,
\* PATH or install-directory hit, registry entry, index choice or manual
\* entry), the browser it selected and the browser it returned have a
\* path that exists on disk, and a record the run wrote to the config
\* file names a path that exists.
C23_ReturnedAndSavedPathsExist ==
  /\ (pc \in {"save", "done"} /\ IsSome(selected)) =>
        PathExists(Unwrap(selected).path)
  /\ (pc = "done" /\ IsSome(result)) => PathExists(Unwrap(result).path)
  /\ (pc = "done" /\ Logged("print_saved")) =>
        /\ IsSome(ConfigFromJson(configFile.text))
        /\ PathExists(Unwrap(ConfigFromJson(configFile.text)).path)

\* C23 witness: a run returned the browser chosen by its index, whose
\* path exists, and wrote its record to the config file.
C23_Witness ==
  /\ pc = "done"
  /\ IsSome(result)
  /\ Logged("print_selected")
  /\ Logged("print_saved")
  /\ PathExists(Unwrap(result).path)
  /\ Persisted(Unwrap(result))

\* The links of a config other than those of the tag, in order.
OtherLinks(cfg, tag) == SelectSeq(cfg, LAMBDA l : l.tag # tag)

\* C24: starting from a LinkConfig with pairwise distinct tags, after any
\* sequence of add_link and remove_link calls the tags are pairwise
\* distinct; get_url of a tag is the URL of the last add_link of that tag
\* not followed by a remove_link of it, or nothing; and a remove_link
\* returned true exactly when its tag was present and left every other
\* link as it was.
C24_LinksStayDistinctAndCurrent ==
  /\ \A i, j \in 1..Len(link_config) :
       link_config[i].tag = link_config[j].tag => i = j
  /\ \A t \in LinkTags : get_url(link_config, t) = expected_url[t]
  /\ last_call.op = "remove_link" =>
       /\ last_call.removed <=>
            \E i \in 1..Len(last_call.before) : last_call.before[i].tag = last_call.tag
       /\ link_config = OtherLinks(last_call.before, last_call.tag)
  /\ last_call.op = "add_link" =>
       OtherLinks(link_config, last_call.tag) = OtherLinks(last_call.before, last_call.tag)

\* C24 witness: after at least two calls, a remove_link of a tag that was
\* present returned true and left the two other links, the last of the
\* three among them, with the URLs they had.
C24_Witness ==
  /\ calls >= 2
  /\ last_call.op = "remove_link"
  /\ last_call.removed
  /\ Len(link_config) >= 2
  /\ \E t \in LinkTags \ {last_call.tag} :
       /\ IsSome(expected_url[t])
       /\ get_url(last_call.before, t) = expected_url[t]
       /\ Len(last_call.before) = 3
       /\ last_call.before[3].tag = t

=============================================================================
